---------------------------- MODULE Spec2Model ----------------------------
(***************************************************************************)
(* Model of the isohedral tiling engine (src/src/tiling.rs), its affine    *)
(* math layer (src/src/utils.rs) and the application state that drives it  *)
(* (src/src/app.rs, src/src/interface.rs).                                 *)
(*                                                                         *)
(* Reals (f32) are modelled by integers with exact arithmetic: rounding,   *)
(* NaN and infinities are outside the model.  Rust arrays are sequences    *)
(* read through At (0-based, as in the source).                            *)
(***************************************************************************)
EXTENDS Integers, Sequences, FiniteSets, TLC

VARIABLES
    tiling,     \* App::tiling, the IsohedralTiling engine instance
    params,     \* App::params, the application's copy of the parameters
    last,       \* the last operation performed, with its inputs and result
    panicked    \* TRUE once an operation has panicked (the process is gone)

vars == <<tiling, params, last, panicked>>

(***************************************************************************)
(* Bounds of the model.                                                    *)
(***************************************************************************)
\* parameter values are drawn from 0..MaxParam
MaxParam == 1
\* lattice coordinates handed to colour are drawn from -MaxN..MaxN
MaxN == 2
\* colouring moduli are drawn from 1..MaxNc
MaxNc == 3
\* coordinates of sample points are drawn from 0..MaxCoord
MaxCoord == 1
\* viewports are squares of side 1..MaxView
MaxView == 2

(***************************************************************************)
(* Program constants.                                                      *)
(***************************************************************************)
\* parameters: [f32; 6], vertices/edges/reversals: [_; 6]
NumSlots == 6
\* aspects: [Affine2; 12]
NumAspectSlots == 12

\* 0-based read of a Rust array or slice
At(s, i) == s[i + 1]

Slots == 0 .. (NumSlots - 1)

(***************************************************************************)
(* utils.rs: Vec2, Mat2, Affine2                                           *)
(***************************************************************************)
vec2(x, y) == [x |-> x, y |-> y]

Vec2_ZERO == vec2(0, 0)

Vec2_add(a, b) == vec2(a.x + b.x, a.y + b.y)

from_cols(x_axis, y_axis) == [x_axis |-> x_axis, y_axis |-> y_axis]

\* mutant of mul_vec2: the matrix is read row-wise instead of column-wise
mul_vec2_transposed(m, rhs) ==
    vec2((m.x_axis.x * rhs.x) + (m.x_axis.y * rhs.y),
         (m.y_axis.x * rhs.x) + (m.y_axis.y * rhs.y))

mul_vec2(m, rhs) ==
    vec2((m.x_axis.x * rhs.x) + (m.y_axis.x * rhs.y),
         (m.x_axis.y * rhs.x) + (m.y_axis.y * rhs.y))

mul_mat2(m, rhs) == from_cols(mul_vec2(m, rhs.x_axis), mul_vec2(m, rhs.y_axis))

Affine2_from_cols_array(m) ==
    [matrix2 |-> from_cols(vec2(At(m, 0), At(m, 1)), vec2(At(m, 2), At(m, 3))),
     translation |-> vec2(At(m, 4), At(m, 5))]

Affine2_default == Affine2_from_cols_array(<<0, 0, 0, 0, 0, 0>>)

transform_point2(a, rhs) == Vec2_add(mul_vec2(a.matrix2, rhs), a.translation)

\* mutant of Affine2_mul: the operands of the matrix product are swapped
Affine2_mul_swapped(a, rhs) ==
    [matrix2 |-> mul_mat2(rhs.matrix2, a.matrix2),
     translation |-> Vec2_add(mul_vec2(a.matrix2, rhs.translation), a.translation)]

Affine2_mul(a, rhs) ==
    [matrix2 |-> mul_mat2(a.matrix2, rhs.matrix2),
     translation |-> Vec2_add(mul_vec2(a.matrix2, rhs.translation), a.translation)]

\* sum of coeffs[off + idx] * params[idx] for idx in 0..n-1
RECURSIVE DotSum(_, _, _, _)
DotSum(coeffs, off, ps, n) ==
    IF n = 0 THEN 0
    ELSE DotSum(coeffs, off, ps, n - 1) + At(coeffs, off + n - 1) * At(ps, n - 1)

\* mutant of ddot: the loop runs over 0..=np, one parameter too many
ddot_inclusive(coeffs, off, ps, np) ==
    DotSum(coeffs, off, ps, np + 1) + At(coeffs, off + np)

\* ddot(&coeffs[off..], params, np)
ddot(coeffs, off, ps, np) == DotSum(coeffs, off, ps, np) + At(coeffs, off + np)

\* fill_vector(&coeffs[off..], params, np, v): the new value of v
fill_vector(coeffs, off, ps, np) ==
    vec2(ddot(coeffs, off, ps, np), ddot(coeffs, off + np + 1, ps, np))

\* fill_affine(&coeffs[off..], params, np, m): the new value of m
fill_affine(coeffs, off, ps, np) ==
    [matrix2 |-> from_cols(
        vec2(ddot(coeffs, off, ps, np), ddot(coeffs, off + np * 3 + 3, ps, np)),
        vec2(ddot(coeffs, off + np + 1, ps, np), ddot(coeffs, off + np * 4 + 4, ps, np))),
     translation |->
        vec2(ddot(coeffs, off + np * 2 + 2, ps, np), ddot(coeffs, off + np * 5 + 5, ps, np))]

\* mutant of r_match: the translation is q, the far end of the segment
r_match_from_q(p, q) ==
    Affine2_from_cols_array(<<q.x - p.x, q.y - p.y, p.y - q.y, q.x - p.x, q.x, q.y>>)

r_match(p, q) ==
    Affine2_from_cols_array(<<q.x - p.x, q.y - p.y, p.y - q.y, q.x - p.x, p.x, p.y>>)

M_ORIENTS == <<
    Affine2_from_cols_array(<<1, 0, 0, 1, 0, 0>>),      \* IDENTITY
    Affine2_from_cols_array(<<-1, 0, 0, -1, 1, 0>>),    \* ROT
    Affine2_from_cols_array(<<-1, 0, 0, 1, 1, 0>>),     \* FLIP
    Affine2_from_cols_array(<<1, 0, 0, -1, 0, 0>>) >>   \* ROFL

\* `b as usize`
BoolAsUsize(b) == IF b THEN 1 ELSE 0

(***************************************************************************)
(* data.rs: the per-type table.  The table itself is not part of the       *)
(* visible sources; the rows below follow the layout the engine reads:     *)
(* 2*(num_params+1) coefficients per vertex and per translation vector,    *)
(* 6*(num_params+1) per aspect, two orientation flags per edge, and a      *)
(* colouring block of 19 entries (12 start colours, 3 + 3 recurrence       *)
(* entries, the modulus at index 18).  Three rows with 0, 1 and 2          *)
(* parameters stand for the 93 rows of the catalogue.                      *)
(***************************************************************************)
TypeRow0 ==
    [num_params |-> 0, num_aspects |-> 1, num_vertices |-> 4,
     default_params |-> << >>,
     tiling_vertex_coeffs |-> <<0, 0,   1, 0,   1, 1,   0, 1>>,
     edge_orientations |-> <<FALSE, FALSE,  FALSE, TRUE,  TRUE, FALSE,  TRUE, TRUE>>,
     aspect_xform_coeffs |-> <<1, 0, 0, 0, 1, 0>>,
     translation_vertex_coeffs |-> <<1, 0,   0, 1>>,
     colouring |-> <<0, 0, 0, 0, 0, 0, 0, 0, 0, 0, 0, 0,  1, 0, 1,  1, 0, 1,  2>>]

TypeRow1 ==
    [num_params |-> 1, num_aspects |-> 2, num_vertices |-> 3,
     default_params |-> <<1>>,
     tiling_vertex_coeffs |-> <<0, 0, 0, 0,   1, 1, 0, 0,   1, 0, 0, 1>>,
     edge_orientations |-> <<FALSE, FALSE,  TRUE, FALSE,  FALSE, TRUE>>,
     aspect_xform_coeffs |-> <<0, 1,  0, 0,  0, 0,  0, 0,  0, 1,  0, 0,
                               0, -1, 0, 0,  2, 1,  0, 0,  0, -1, 0, 1>>,
     translation_vertex_coeffs |-> <<1, 1, 0, 0,   1, 0, 0, 1>>,
     colouring |-> <<0, 1, 0, 0, 0, 0, 0, 0, 0, 0, 0, 0,  1, 2, 0,  2, 0, 1,  3>>]

TypeRow2 ==
    [num_params |-> 2, num_aspects |-> 3, num_vertices |-> 5,
     default_params |-> <<1, 0>>,
     tiling_vertex_coeffs |-> <<0, 0, 0,  0, 0, 0,
                                1, 0, 1,  0, 0, 0,
                                1, 0, 1,  0, 1, 1,
                                1, 0, 0,  0, 1, 2,
                                0, 0, 0,  0, 1, 1>>,
     edge_orientations |-> <<FALSE, FALSE,  TRUE, TRUE,  FALSE, TRUE,
                             TRUE, FALSE,  FALSE, FALSE>>,
     aspect_xform_coeffs |-> <<0, 0, 1,   0, 0, 0,   0, 0, 0,
                               0, 0, 0,   0, 0, 1,   0, 0, 0,
                               0, 0, -1,  0, 0, 0,   2, 0, 2,
                               0, 0, 0,   0, 0, 1,   0, 0, 0,
                               0, 0, 0,   0, 0, -1,  0, 1, 1,
                               0, 0, 1,   0, 0, 0,   1, 0, 0>>,
     translation_vertex_coeffs |-> <<1, 0, 1,  0, 1, 0,   0, 0, 0,  0, 1, 1>>,
     colouring |-> <<0, 1, 2, 0, 0, 0, 0, 0, 0, 0, 0, 0,  1, 2, 0,  1, 2, 0,  3>>]

tiling_type_data == <<TypeRow0, TypeRow1, TypeRow2>>

\* the valid tiling types: the indices of the table
NumTypes == Len(tiling_type_data)

ValidTypes == 0 .. (NumTypes - 1)

\* the referent of a default-constructed &'static TilingTypeData
TilingTypeData_default ==
    [num_params |-> 0, num_aspects |-> 0, num_vertices |-> 0,
     default_params |-> << >>,
     tiling_vertex_coeffs |-> << >>,
     edge_orientations |-> << >>,
     aspect_xform_coeffs |-> << >>,
     translation_vertex_coeffs |-> << >>,
     colouring |-> <<0, 0, 0, 0, 0, 0, 0, 0, 0, 0, 0, 0,  0, 0, 0,  0, 0, 0,  0>>]

(***************************************************************************)
(* tiling.rs: IsohedralTiling                                              *)
(***************************************************************************)
\* #[derive(Default)] on IsohedralTiling
IsohedralTiling_default ==
    [tiling_type |-> 0,
     num_params  |-> 0,
     parameters  |-> [i \in 1 .. NumSlots |-> 0],
     vertices    |-> [i \in 1 .. NumSlots |-> Vec2_ZERO],
     edges       |-> [i \in 1 .. NumSlots |-> Affine2_default],
     reversals   |-> [i \in 1 .. NumSlots |-> FALSE],
     aspects     |-> [i \in 1 .. NumAspectSlots |-> Affine2_default],
     t1          |-> Vec2_ZERO,
     t2          |-> Vec2_ZERO,
     ttd         |-> TilingTypeData_default]

\* the vertex loop of recompute: vertices[0..ntv) are rewritten
recompute_vertices(self) ==
    LET ntv == self.ttd.num_vertices
        np  == self.num_params
    IN  [i \in 1 .. NumSlots |->
            IF i - 1 < ntv
            THEN fill_vector(self.ttd.tiling_vertex_coeffs,
                             (i - 1) * (2 * (np + 1)), self.parameters, np)
            ELSE self.vertices[i]]

\* mutant of recompute: the edge loop runs before the vertex loop, so the
\* edges are matched to the vertices of the previous recompute
recompute_edges_first(self) ==
    LET ttd == self.ttd
        ntv == ttd.num_vertices
        np  == self.num_params
        vs  == recompute_vertices(self)
        fl(idx) == At(ttd.edge_orientations, 2 * idx)
        ro(idx) == At(ttd.edge_orientations, 2 * idx + 1)
    IN  [self EXCEPT
            !.vertices = vs,
            !.reversals = [i \in 1 .. NumSlots |->
                IF i - 1 < ntv THEN fl(i - 1) # ro(i - 1) ELSE self.reversals[i]],
            !.edges = [i \in 1 .. NumSlots |->
                IF i - 1 < ntv
                THEN Affine2_mul(r_match(At(self.vertices, i - 1), At(self.vertices, i % ntv)),
                                 At(M_ORIENTS, 2 * BoolAsUsize(fl(i - 1)) + BoolAsUsize(ro(i - 1))))
                ELSE self.edges[i]],
            !.aspects = [i \in 1 .. NumAspectSlots |->
                IF i - 1 < ttd.num_aspects
                THEN fill_affine(ttd.aspect_xform_coeffs, (i - 1) * (6 * (np + 1)),
                                 self.parameters, np)
                ELSE self.aspects[i]],
            !.t1 = fill_vector(ttd.translation_vertex_coeffs, 0, self.parameters, np),
            !.t2 = fill_vector(ttd.translation_vertex_coeffs, 2 * (np + 1),
                               self.parameters, np)]

recompute(self) ==
    LET ttd == self.ttd
        ntv == ttd.num_vertices
        np  == self.num_params
        vs  == recompute_vertices(self)
        fl(idx) == At(ttd.edge_orientations, 2 * idx)
        ro(idx) == At(ttd.edge_orientations, 2 * idx + 1)
    IN  [self EXCEPT
            !.vertices = vs,
            !.reversals = [i \in 1 .. NumSlots |->
                IF i - 1 < ntv THEN fl(i - 1) # ro(i - 1) ELSE self.reversals[i]],
            !.edges = [i \in 1 .. NumSlots |->
                IF i - 1 < ntv
                THEN Affine2_mul(r_match(At(vs, i - 1), At(vs, i % ntv)),
                                 At(M_ORIENTS, 2 * BoolAsUsize(fl(i - 1)) + BoolAsUsize(ro(i - 1))))
                ELSE self.edges[i]],
            !.aspects = [i \in 1 .. NumAspectSlots |->
                IF i - 1 < ttd.num_aspects
                THEN fill_affine(ttd.aspect_xform_coeffs, (i - 1) * (6 * (np + 1)),
                                 self.parameters, np)
                ELSE self.aspects[i]],
            !.t1 = fill_vector(ttd.translation_vertex_coeffs, 0, self.parameters, np),
            !.t2 = fill_vector(ttd.translation_vertex_coeffs, 2 * (np + 1),
                               self.parameters, np)]

\* self.parameters[..n].copy_from_slice(src)
copy_prefix(dst, src, n) ==
    [i \in 1 .. Len(dst) |-> IF i <= n THEN src[i] ELSE dst[i]]

\* mutant of reset: the default parameters of the new type are not loaded
reset_keeps_parameters(self, ihtype) ==
    LET s1 == [self EXCEPT !.tiling_type = ihtype]
    IN  IF ihtype \notin ValidTypes
        THEN [panic |-> TRUE, self |-> s1]
        ELSE LET ttd == At(tiling_type_data, ihtype)
             IN  [panic |-> FALSE,
                  self |-> recompute([s1 EXCEPT !.num_params = ttd.num_params,
                                                !.ttd = ttd])]

\* reset: the state it leaves, and whether the table index panicked.  The
\* type is stored (line 59) before the table is indexed (line 60).
reset(self, ihtype) ==
    LET s1 == [self EXCEPT !.tiling_type = ihtype]
    IN  IF ihtype \notin ValidTypes
        THEN [panic |-> TRUE, self |-> s1]
        ELSE LET ttd == At(tiling_type_data, ihtype)
                 s2  == [s1 EXCEPT !.num_params = ttd.num_params,
                                   !.ttd = ttd,
                                   !.parameters = copy_prefix(s1.parameters,
                                                              ttd.default_params,
                                                              ttd.num_params)]
             IN  [panic |-> FALSE, self |-> recompute(s2)]

\* IsohedralTiling::new, for a valid type
new(ihtype) == reset(IsohedralTiling_default, ihtype).self

num_params(self) == self.num_params

num_vertices(self) == self.ttd.num_vertices

num_aspects(self) == self.ttd.num_aspects

\* parameters(&self, params): the value copied into params
parameters(self) == [i \in 1 .. NumSlots |-> self.parameters[i]]

\* mutant of set_parameters: the recompute runs but the copy is missing
set_parameters_no_copy(self, ps) == recompute(self)

set_parameters(self, ps) ==
    recompute([self EXCEPT !.parameters = [i \in 1 .. NumSlots |-> ps[i]]])

\* Rust's % on isize: the remainder of truncating division, for nc > 0
TruncRem(a, nc) == IF a >= 0 THEN a % nc ELSE 0 - ((0 - a) % nc)

\* `for _ in 0..n { col = colouring[base + col] }`; an index past the end of
\* the colouring block panics
RECURSIVE colour_steps(_, _, _, _)
colour_steps(colouring, base, start, n) ==
    IF n <= 0 THEN start
    ELSE LET c == colour_steps(colouring, base, start, n - 1)
         IN  IF c.panic \/ (base + c.col) \notin 0 .. (Len(colouring) - 1)
             THEN [panic |-> TRUE, col |-> c.col]
             ELSE [panic |-> FALSE, col |-> At(colouring, base + c.col)]

\* mutant of colour: truncating remainder without the correction of negatives
colour_truncating(self, t1, t2, aspect) ==
    LET colouring == self.ttd.colouring
        nc  == At(colouring, 18)
        mt1 == TruncRem(t1, nc)
        mt2 == TruncRem(t2, nc)
        c0  == [panic |-> FALSE, col |-> At(colouring, aspect)]
        c1  == colour_steps(colouring, 12, c0, mt1)
    IN  colour_steps(colouring, 15, c1, mt2)

\* mutant of colour: the n2 recurrence is read one entry too far
colour_off_by_one(self, t1, t2, aspect) ==
    LET colouring == self.ttd.colouring
        nc  == At(colouring, 18)
        r1  == TruncRem(t1, nc)
        mt1 == IF r1 < 0 THEN r1 + nc ELSE r1
        r2  == TruncRem(t2, nc)
        mt2 == IF r2 < 0 THEN r2 + nc ELSE r2
        c0  == [panic |-> FALSE, col |-> At(colouring, aspect)]
        c1  == colour_steps(colouring, 12, c0, mt1)
    IN  colour_steps(colouring, 16, c1, mt2)

\* colour(&self, t1, t2, aspect): [panic, col]
colour(self, t1, t2, aspect) ==
    LET colouring == self.ttd.colouring
        nc  == At(colouring, 18)
        r1  == TruncRem(t1, nc)
        mt1 == IF r1 < 0 THEN r1 + nc ELSE r1
        r2  == TruncRem(t2, nc)
        mt2 == IF r2 < 0 THEN r2 + nc ELSE r2
        c0  == [panic |-> FALSE, col |-> At(colouring, aspect)]
        c1  == colour_steps(colouring, 12, c0, mt1)
    IN  colour_steps(colouring, 15, c1, mt2)

(***************************************************************************)
(* Inputs                                                                  *)
(***************************************************************************)
ParamValues == 0 .. MaxParam




\* parameter vectors handed to set_parameters: the two slots the types of the
\* table use vary freely, the slots no type uses stay 0
ParamVectors ==
    { <<a, b, 0, 0, 0, 0>> : a \in ParamValues, b \in ParamValues }

\* type ids handed to reset: the valid ones and the first invalid one
TypeInputs == 0 .. NumTypes

(***************************************************************************)
(* The application and the engine's mutating API                           *)
(***************************************************************************)
\* App::new: type 0, then set_default_params
Init ==
    /\ tiling = new(0)
    /\ params = new(0).parameters
    /\ last = [op |-> "new", arg |-> 0]
    /\ panicked = FALSE

\* the type slider changed: a fresh engine, then set_default_params
TypeSlider(t) ==
    /\ ~panicked
    /\ tiling' = new(t)
    /\ params' = new(t).parameters
    /\ last' = [op |-> "new", arg |-> t]
    /\ UNCHANGED panicked

\* the slider of parameter i changed to v: set_parameters(&app.params)
ParamSlider(i, v) ==
    /\ ~panicked
    /\ i < tiling.num_params
    /\ v # At(params, i)
    /\ params' = [params EXCEPT ![i + 1] = v]
    /\ tiling' = set_parameters(tiling, params')
    /\ last' = [op |-> "set_parameters", arg |-> params']
    /\ UNCHANGED panicked

\* a frame of the random-theme animation: one random parameter is set from
\* the theme's colour and the vector is handed to set_parameters
RandomThemeFrame(i, v) ==
    /\ ~panicked
    /\ tiling.num_params # 0
    /\ i < tiling.num_params
    /\ params' = [params EXCEPT ![i + 1] = v]
    /\ tiling' = set_parameters(tiling, params')
    /\ last' = [op |-> "set_parameters", arg |-> params']
    /\ UNCHANGED panicked

\* IsohedralTiling::reset called on the application's engine
Reset(t) ==
    /\ ~panicked
    /\ LET r == reset(tiling, t)
       IN  /\ tiling' = r.self
           /\ panicked' = r.panic
           /\ last' = IF r.panic
                      THEN [op |-> "reset_panic", arg |-> t, before |-> tiling]
                      ELSE [op |-> "reset", arg |-> t,
                            repeat |-> (last.op = "reset" /\ last.arg = t)]
    /\ UNCHANGED params

\* IsohedralTiling::set_parameters called on the application's engine
SetParameters(p) ==
    /\ ~panicked
    /\ tiling' = set_parameters(tiling, p)
    /\ last' = [op |-> "set_parameters", arg |-> p]
    /\ UNCHANGED <<params, panicked>>

\* App::set_default_params
SetDefaultParams ==
    /\ ~panicked
    /\ params' = tiling.parameters
    /\ last' = [op |-> "set_default_params", arg |-> 0]
    /\ UNCHANGED <<tiling, panicked>>

\* App::_set_params(i): the engine's parameter slot is written directly
SetParams(i) ==
    /\ ~panicked
    /\ i < tiling.num_params
    /\ tiling' = [tiling EXCEPT !.parameters[i + 1] = At(params, i)]
    /\ last' = [op |-> "_set_params", arg |-> i]
    /\ UNCHANGED <<params, panicked>>

Next ==
    \/ \E t \in ValidTypes : TypeSlider(t)
    \/ \E i \in Slots, v \in ParamValues : ParamSlider(i, v)
    \/ \E i \in Slots, v \in ParamValues : RandomThemeFrame(i, v)
    \/ \E t \in TypeInputs : Reset(t)
    \/ \E p \in ParamVectors : SetParameters(p)
    \/ SetDefaultParams
    \/ \E i \in Slots : SetParams(i)

Spec == Init /\ [][Next]_vars

(***************************************************************************)
(* Properties of the engine under Spec                                     *)
(***************************************************************************)
Prefix(arr, n) == [i \in 1 .. n |-> arr[i]]

\* the part of the engine state the accessors expose as valid
Meaningful(self) ==
    [tiling_type |-> self.tiling_type,
     num_params  |-> self.num_params,
     ttd         |-> self.ttd,
     parameters  |-> Prefix(self.parameters, self.num_params),
     vertices    |-> Prefix(self.vertices, self.ttd.num_vertices),
     edges       |-> Prefix(self.edges, self.ttd.num_vertices),
     reversals   |-> Prefix(self.reversals, self.ttd.num_vertices),
     aspects     |-> Prefix(self.aspects, self.ttd.num_aspects),
     t1          |-> self.t1,
     t2          |-> self.t2]

\* the derived geometry: vertices, edges, reversals, aspects, t1, t2
Derived(self) ==
    [vertices    |-> Prefix(self.vertices, self.ttd.num_vertices),
     edges       |-> Prefix(self.edges, self.ttd.num_vertices),
     reversals   |-> Prefix(self.reversals, self.ttd.num_vertices),
     aspects     |-> Prefix(self.aspects, self.ttd.num_aspects),
     t1          |-> self.t1,
     t2          |-> self.t2]

\* C1: a reset with a type id outside the table fails with an error condition
\* (no panic) and leaves every field of the engine as it was before the call.
C1_InvalidResetLeavesState ==
    (last.op \in {"reset", "reset_panic"} /\ last.arg \notin ValidTypes)
        => (~panicked /\ tiling = last.before)

\* C2 (as claimed): after reset(t) the complete engine state, unused slots
\* included, equals the state of a freshly constructed new(t).
C2_ResetEqualsNew ==
    last.op = "reset" => tiling = new(last.arg)

\* C2 (amended): after reset(t) the type, num_params, table reference, the
\* first num_params parameters, the first num_vertices vertices, edges and
\* reversals, the first num_aspects aspects, t1 and t2 equal those of new(t).
C2_ResetEqualsNewMeaningful ==
    last.op = "reset" => Meaningful(tiling) = Meaningful(new(last.arg))

\* a reset whose result differs from new(t) in a slot beyond the meaningful ones
C2_Witness ==
    /\ last.op = "reset"
    /\ tiling # new(last.arg)
    /\ tiling.parameters # new(last.arg).parameters

\* C3: in every reachable state the stored derived geometry equals the result
\* of recompute applied to the stored type and parameters (never stale).
C3_DerivedGeometryFresh ==
    Derived(tiling) = Derived(recompute(tiling))

\* C6: for every edge idx < num_vertices the edge transform maps (0,0) and
\* (1,0) to (vertex[idx], vertex[idx+1 mod n]) when reversals[idx] is false and
\* to (vertex[idx+1 mod n], vertex[idx]) when it is true, and reversals[idx] is
\* the exclusive or of the edge's two orientation flags.
C6_ReversalConsistency ==
    \A idx \in 0 .. (num_vertices(tiling) - 1) :
        LET e  == At(tiling.edges, idx)
            p  == At(tiling.vertices, idx)
            q  == At(tiling.vertices, (idx + 1) % num_vertices(tiling))
            a  == transform_point2(e, vec2(0, 0))
            b  == transform_point2(e, vec2(1, 0))
            fl == At(tiling.ttd.edge_orientations, 2 * idx)
            ro == At(tiling.ttd.edge_orientations, 2 * idx + 1)
        IN  /\ At(tiling.reversals, idx) <=> ((fl /\ ~ro) \/ (~fl /\ ro))
            /\ IF At(tiling.reversals, idx)
               THEN a = q /\ b = p
               ELSE a = p /\ b = q

\* a recomputed state with a reversed and an unreversed edge of non-zero length
C6_Witness ==
    /\ last.op = "set_parameters"
    /\ \E i, j \in 0 .. (num_vertices(tiling) - 1) :
        /\ At(tiling.reversals, i)
        /\ ~At(tiling.reversals, j)
        /\ At(tiling.vertices, i) # At(tiling.vertices, (i + 1) % num_vertices(tiling))
        /\ At(tiling.vertices, j) # At(tiling.vertices, (j + 1) % num_vertices(tiling))

\* C7: num_params() equals the table's declared num_params of the type, and
\* after set_parameters(p) the read-back parameters() agree with p on the
\* first num_params slots; set_parameters does not fail.
C7_ParameterRoundTrip ==
    /\ ~panicked =>
          num_params(tiling) = At(tiling_type_data, tiling.tiling_type).num_params
    /\ last.op = "set_parameters" =>
          /\ ~panicked
          /\ \A i \in 0 .. (num_params(tiling) - 1) :
                At(parameters(tiling), i) = At(last.arg, i)

\* set_parameters with a vector that differs from the type's defaults
C7_Witness ==
    /\ last.op = "set_parameters"
    /\ num_params(tiling) = 2
    /\ Prefix(last.arg, 2) # tiling.ttd.default_params

\* C8: reset(t) directly followed by reset(t) leaves the engine state as the
\* first reset(t) left it.
C8_ResetIdempotent ==
    [][(last.op = "reset" /\ last'.op = "reset" /\ last'.arg = last.arg)
          => tiling' = tiling]_vars

\* a second reset(t) directly after reset(t), in a state with stale slots
C8_Witness ==
    /\ last.op = "reset"
    /\ last.repeat
    /\ tiling # new(last.arg)

(***************************************************************************)
(* colour as a function of the colouring table: SpecColour                 *)
(***************************************************************************)
Colours == 0 .. 2

LatticeCoords == (0 - MaxN) .. MaxN

\* a colouring block: 12 start colours, the n1 and n2 recurrences, the modulus
ColouringBlock(start, r1, r2, nc) ==
    [i \in 1 .. 19 |->
        IF i <= 12 THEN start[i]
        ELSE IF i <= 15 THEN r1[i - 13]
        ELSE IF i <= 18 THEN r2[i - 16]
        ELSE nc]

\* the colouring blocks drawn as inputs: the start colours of a table row, every pair of recurrences over {0,1,2}, every modulus in 1..MaxNc
ColouringTables(row) ==
    { ColouringBlock(row.colouring, r1, r2, nc) :
        r1 \in [Colours -> Colours], r2 \in [Colours -> Colours], nc \in 1 .. MaxNc }

\* an engine of type 1 (two aspects) over any of these colouring blocks
InitColour ==
    /\ \E c \in ColouringTables(TypeRow1) :
          tiling = [new(1) EXCEPT !.ttd.colouring = c]
    /\ params = new(1).parameters
    /\ last = [op |-> "new", arg |-> 1]
    /\ panicked = FALSE

\* colour(n1, n2, aspect) is called on the engine and its result kept; colour
\* takes &self, so one call per behaviour covers every call
Colour(n1, n2, aspect) ==
    /\ ~panicked
    /\ last.op = "new"
    /\ aspect < num_aspects(tiling)
    /\ LET r == colour(tiling, n1, n2, aspect)
       IN  /\ last' = [op |-> "colour", n1 |-> n1, n2 |-> n2, aspect |-> aspect,
                       res |-> r.col]
           /\ panicked' = r.panic
    /\ UNCHANGED <<tiling, params>>

NextColour ==
    \E n1 \in LatticeCoords, n2 \in LatticeCoords, aspect \in 0 .. (NumAspectSlots - 1) :
        Colour(n1, n2, aspect)

SpecColour == InitColour /\ [][NextColour]_vars

\* C4: colour returns, without panicking, a value in {0,1,2} for all integers
\* n1, n2 and every aspect < num_aspects, for any table with entries in {0,1,2}
\* and modulus at least 1.
C4_ColourInRange ==
    last.op = "colour" => (~panicked /\ last.res \in Colours)

\* a call with negative lattice coordinates on a table with modulus 3
C4_Witness ==
    /\ last.op = "colour"
    /\ last.n1 < 0
    /\ last.n2 < 0
    /\ last.aspect = 1
    /\ At(tiling.ttd.colouring, 18) = 3
    /\ last.res = 2

\* the floor-modulo residue of a modulo nc, in [0, nc)
FloorMod(a, nc) == a % nc

\* C5: colour is periodic with the modulus nc in n1 and in n2, for negative
\* coordinates and negative k too, and the number of n1- and n2-steps applied
\* is the floor-modulo residue in [0, nc).
C5_ColourPeriodic ==
    last.op = "colour" =>
        LET nc == At(tiling.ttd.colouring, 18)
            c0 == [panic |-> FALSE, col |-> At(tiling.ttd.colouring, last.aspect)]
        IN  /\ \A k \in (0 - 2) .. 2 :
                /\ colour(tiling, last.n1 + k * nc, last.n2, last.aspect).col = last.res
                /\ colour(tiling, last.n1, last.n2 + k * nc, last.aspect).col = last.res
            /\ last.res =
                 colour_steps(tiling.ttd.colouring, 15,
                     colour_steps(tiling.ttd.colouring, 12, c0, FloorMod(last.n1, nc)),
                     FloorMod(last.n2, nc)).col

\* a call with a negative n1 whose colour differs from the aspect's start colour
C5_Witness ==
    /\ last.op = "colour"
    /\ last.n1 < 0
    /\ last.n2 = 0
    /\ last.res # At(tiling.ttd.colouring, last.aspect)

(***************************************************************************)
(* Affine composition on sample transforms: SpecAffine                     *)
(***************************************************************************)
Coords == 0 .. MaxCoord

Points == { vec2(x, y) : x \in Coords, y \in Coords }

\* sample transforms: the four orientation maps, the segment matches between
\* sample points, and shears with a translation
AffineSamples ==
    { M_ORIENTS[i] : i \in 1 .. 4 }
    \cup { r_match(p, q) : p \in Points, q \in Points }
    \cup { Affine2_from_cols_array(<<1, c, d, 1, e, 0>>) :
             c \in Coords, d \in Coords, e \in Coords }

InitAffine ==
    /\ tiling = new(0)
    /\ params = new(0).parameters
    /\ \E a \in AffineSamples, b \in AffineSamples, p \in Points :
          last = [op |-> "affine_input", a |-> a, b |-> b, p |-> p]
    /\ panicked = FALSE

\* a * b is formed and applied to p, as draw_isohedrals does with
\* tile.transform * e.transform()
Compose ==
    /\ last.op = "affine_input"
    /\ LET ab == Affine2_mul(last.a, last.b)
       IN  last' = [op |-> "affine_mul", a |-> last.a, b |-> last.b, p |-> last.p,
                    ab |-> ab, image |-> transform_point2(ab, last.p)]
    /\ UNCHANGED <<tiling, params, panicked>>

NextAffine == Compose

SpecAffine == InitAffine /\ [][NextAffine]_vars

\* C9: A * B has matrix M1*M2 and translation M1*t2 + t1, and (A * B) applied
\* to a point p equals A applied to (B applied to p), with p -> M*p + t.
C9_AffineComposition ==
    last.op = "affine_mul" =>
        LET m1 == last.a.matrix2
            m2 == last.b.matrix2
            t1 == last.a.translation
            t2 == last.b.translation
            bp == vec2(m2.x_axis.x * last.p.x + m2.y_axis.x * last.p.y + t2.x,
                       m2.x_axis.y * last.p.x + m2.y_axis.y * last.p.y + t2.y)
        IN  /\ last.ab.matrix2.x_axis.x = m1.x_axis.x * m2.x_axis.x + m1.y_axis.x * m2.x_axis.y
            /\ last.ab.matrix2.x_axis.y = m1.x_axis.y * m2.x_axis.x + m1.y_axis.y * m2.x_axis.y
            /\ last.ab.matrix2.y_axis.x = m1.x_axis.x * m2.y_axis.x + m1.y_axis.x * m2.y_axis.y
            /\ last.ab.matrix2.y_axis.y = m1.x_axis.y * m2.y_axis.x + m1.y_axis.y * m2.y_axis.y
            /\ last.ab.translation.x = m1.x_axis.x * t2.x + m1.y_axis.x * t2.y + t1.x
            /\ last.ab.translation.y = m1.x_axis.y * t2.x + m1.y_axis.y * t2.y + t1.y
            /\ last.image.x = m1.x_axis.x * bp.x + m1.y_axis.x * bp.y + t1.x
            /\ last.image.y = m1.x_axis.y * bp.x + m1.y_axis.y * bp.y + t1.y
            /\ last.image = transform_point2(last.a, transform_point2(last.b, last.p))

\* a composition of two maps that do not commute, applied off the origin
C9_Witness ==
    /\ last.op = "affine_mul"
    /\ last.ab # Affine2_mul(last.b, last.a)
    /\ last.ab.matrix2 # mul_mat2(last.b.matrix2, last.a.matrix2)
    /\ last.p # Vec2_ZERO
    /\ last.image # last.p

(***************************************************************************)
(* Plane filling: SpecFill.  fill_region is in tiling.rs; FillAlgorithm     *)
(* (iterators.rs) is not part of the visible sources and follows the       *)
(* algorithm of the design: the viewport's corners in lattice coordinates, *)
(* their integer bounding box widened by one cell, every cell and aspect   *)
(* of the box kept when its footprint's bounding box meets the viewport.   *)
(* The lattice vectors are taken to be a basis (non-zero determinant).     *)
(***************************************************************************)
\* floor and ceiling of n / d for d # 0
FloorDiv(n, d) == IF d > 0 THEN n \div d ELSE (0 - n) \div (0 - d)

CeilDiv(n, d) == 0 - FloorDiv(0 - n, d)

SetMin(S) == CHOOSE x \in S : \A y \in S : x <= y

SetMax(S) == CHOOSE x \in S : \A y \in S : x >= y

FillAlgorithm_new(self, a, b, c, d) == [tiling |-> self, corners |-> <<a, b, c, d>>]

\* fill_region(&self, xmin, ymin, xmax, ymax)
fill_region(self, xmin, ymin, xmax, ymax) ==
    FillAlgorithm_new(self, vec2(xmin, ymin), vec2(xmax, ymin),
                            vec2(xmax, ymax), vec2(xmin, ymax))

\* the determinant of the lattice basis (t1, t2)
LatticeDet(self) == self.t1.x * self.t2.y - self.t2.x * self.t1.y

\* the placement of aspect `aspect` in lattice cell (n1, n2):
\* lattice_translation(n1, n2) composed with the aspect transform
placement(self, n1, n2, aspect) ==
    Affine2_mul(
        [matrix2 |-> from_cols(vec2(1, 0), vec2(0, 1)),
         translation |-> vec2(n1 * self.t1.x + n2 * self.t2.x,
                              n1 * self.t1.y + n2 * self.t2.y)],
        At(self.aspects, aspect))

\* the footprint test: the bounding box of the placed prototile's vertices
\* meets the bounding box of the viewport's corners
footprint_meets(alg, xf) ==
    LET self == alg.tiling
        vs == { transform_point2(xf, At(self.vertices, i)) :
                    i \in 0 .. (num_vertices(self) - 1) }
        cs == { alg.corners[i] : i \in 1 .. 4 }
    IN  /\ SetMin({ v.x : v \in vs }) <= SetMax({ c.x : c \in cs })
        /\ SetMax({ v.x : v \in vs }) >= SetMin({ c.x : c \in cs })
        /\ SetMin({ v.y : v \in vs }) <= SetMax({ c.y : c \in cs })
        /\ SetMax({ v.y : v \in vs }) >= SetMin({ c.y : c \in cs })

\* the cells of the widened bounding box, row by row, each with every aspect
fill_scan(alg) ==
    LET self == alg.tiling
        det  == LatticeDet(self)
        cs   == { alg.corners[i] : i \in 1 .. 4 }
        lo1  == SetMin({ FloorDiv(c.x * self.t2.y - c.y * self.t2.x, det) : c \in cs }) - 1
        hi1  == SetMax({ CeilDiv(c.x * self.t2.y - c.y * self.t2.x, det) : c \in cs }) + 1
        lo2  == SetMin({ FloorDiv(c.y * self.t1.x - c.x * self.t1.y, det) : c \in cs }) - 1
        hi2  == SetMax({ CeilDiv(c.y * self.t1.x - c.x * self.t1.y, det) : c \in cs }) + 1
        w    == hi1 - lo1 + 1
        h    == hi2 - lo2 + 1
        na   == num_aspects(self)
    IN  [k \in 1 .. (w * h * na) |->
            LET n2 == lo2 + ((k - 1) \div (w * na))
                n1 == lo1 + (((k - 1) \div na) % w)
                a  == (k - 1) % na
            IN  [t1 |-> n1, t2 |-> n2, aspect |-> a,
                 transform |-> placement(self, n1, n2, a)]]

\* mutant of FillAlgorithm_iter: every record carries aspect 0
FillAlgorithm_iter_aspect0(alg) ==
    LET cells == fill_scan(alg)
        all == [k \in 1 .. Len(cells) |->
                  [cells[k] EXCEPT !.aspect = 0,
                                   !.transform = placement(alg.tiling, cells[k].t1,
                                                           cells[k].t2, 0)]]
        Keep(tile) == footprint_meets(alg, tile.transform)
    IN  SelectSeq(all, Keep)

\* FillAlgorithm::iter(): the sequence of placed-tile records whose footprint
\* meets the viewport
FillAlgorithm_iter(alg) ==
    LET Keep(tile) == footprint_meets(alg, tile.transform)
    IN  SelectSeq(fill_scan(alg), Keep)

\* viewports: squares of side 1..MaxView with a corner in {-1, 0} x {-1, 0}
Viewports ==
    { [xmin |-> a, ymin |-> b, xmax |-> a + w, ymax |-> b + w] :
        a \in (0 - 1) .. 0, b \in (0 - 1) .. 0, w \in 1 .. MaxView }

\* an engine of any type with any parameter vector
InitFill ==
    /\ \E t \in ValidTypes, p \in ParamVectors :
          /\ tiling = set_parameters(new(t), p)
          /\ params = p
          /\ last = [op |-> "set_parameters", arg |-> p]
    /\ panicked = FALSE

\* fill_region(view).iter() is collected, as draw_isohedrals does every frame
Fill(view) ==
    /\ last.op = "set_parameters"
    /\ LatticeDet(tiling) # 0
    /\ last' = [op |-> "fill", view |-> view,
                out |-> FillAlgorithm_iter(
                    fill_region(tiling, view.xmin, view.ymin, view.xmax, view.ymax))]
    /\ UNCHANGED <<tiling, params, panicked>>

\* the next frame: the same engine state and viewport are filled again
Refill ==
    /\ last.op = "fill"
    /\ last' = [op |-> "refill", view |-> last.view, first |-> last.out,
                out |-> FillAlgorithm_iter(
                    fill_region(tiling, last.view.xmin, last.view.ymin,
                                last.view.xmax, last.view.ymax))]
    /\ UNCHANGED <<tiling, params, panicked>>

NextFill ==
    \/ \E view \in Viewports : Fill(view)
    \/ Refill

SpecFill == InitFill /\ [][NextFill]_vars

AllParamVectors == [1 .. NumSlots -> ParamValues]

\* p and q agree on the first n slots
AgreeOnPrefix(p, q, n) == \A i \in 1 .. n : p[i] = q[i]

\* an engine of any type and two vectors that agree on its num_params slots
InitUnused ==
    /\ \E t \in ValidTypes, p \in ParamVectors, q \in AllParamVectors :
          /\ AgreeOnPrefix(p, q, new(t).num_params)
          /\ tiling = new(t)
          /\ last = [op |-> "pair_input", p |-> p, q |-> q]
    /\ params = tiling.parameters
    /\ panicked = FALSE

\* set_parameters(p) on the engine, and set_parameters(q) on a second engine
\* in the same state
SetParametersPair ==
    /\ last.op = "pair_input"
    /\ tiling' = set_parameters(tiling, last.p)
    /\ last' = [op |-> "set_parameters_pair", p |-> last.p, q |-> last.q,
                other |-> set_parameters(tiling, last.q)]
    /\ UNCHANGED <<params, panicked>>

NextUnused == SetParametersPair

SpecUnused == InitUnused /\ [][NextUnused]_vars

\* sum of coeff[i] * param[i] over i < np, plus coeff[np], for the coefficient
\* row that starts at `off`
RECURSIVE LinearTerms(_, _, _, _, _)
LinearTerms(coeffs, off, ps, i, np) ==
    IF i >= np THEN 0
    ELSE coeffs[off + i + 1] * ps[i + 1] + LinearTerms(coeffs, off, ps, i + 1, np)

LinearValue(coeffs, off, ps, np) ==
    LinearTerms(coeffs, off, ps, 0, np) + coeffs[off + np + 1]

\* C11: set_parameters(p) and set_parameters(q), for p and q that agree on the
\* first num_params slots, give the same vertices, edge transforms, reversals,
\* aspect transforms, t1 and t2, and every vertex coordinate, aspect entry and
\* lattice coordinate is sum(coeff[i]*param[i], i < num_params) + coeff[num_params].
C11_UnusedSlotsIgnored ==
    last.op = "set_parameters_pair" =>
        LET np  == num_params(tiling)
            w   == np + 1
            ttd == tiling.ttd
            ps  == last.p
        IN  /\ Derived(tiling) = Derived(last.other)
            /\ \A idx \in 0 .. (num_vertices(tiling) - 1) :
                  At(tiling.vertices, idx) =
                      vec2(LinearValue(ttd.tiling_vertex_coeffs, idx * 2 * w, ps, np),
                           LinearValue(ttd.tiling_vertex_coeffs, idx * 2 * w + w, ps, np))
            /\ \A idx \in 0 .. (num_aspects(tiling) - 1) :
                  LET a == At(tiling.aspects, idx)
                      row(r) == LinearValue(ttd.aspect_xform_coeffs,
                                            idx * 6 * w + r * w, ps, np)
                  IN  /\ a.matrix2.x_axis = vec2(row(0), row(3))
                      /\ a.matrix2.y_axis = vec2(row(1), row(4))
                      /\ a.translation = vec2(row(2), row(5))
            /\ tiling.t1 = vec2(LinearValue(ttd.translation_vertex_coeffs, 0, ps, np),
                                LinearValue(ttd.translation_vertex_coeffs, w, ps, np))
            /\ tiling.t2 = vec2(LinearValue(ttd.translation_vertex_coeffs, 2 * w, ps, np),
                                LinearValue(ttd.translation_vertex_coeffs, 3 * w, ps, np))

\* two vectors that differ in an unused slot, on a type whose geometry depends
\* on its parameter and is not at its default
C11_Witness ==
    /\ last.op = "set_parameters_pair"
    /\ num_params(tiling) = 1
    /\ last.p[2] # last.q[2]
    /\ tiling.parameters # last.other.parameters
    /\ tiling.vertices # new(1).vertices

=============================================================================
